---- MODULE Spec2Model ----
(***************************************************************************)
(* InMemoryVectorStore of code_rag_server (vector_store.py): a flat list   *)
(* of normalized embeddings with a parallel list of metadata records, an   *)
(* optional pickle snapshot, and brute-force cosine search; and the calls  *)
(* that fill it: EmbeddingService (embeddings.py) and update_index         *)
(* (server.py).                                                            *)
(*                                                                         *)
(* Numbers.  Input vectors are integer sequences (components in tenths).   *)
(* A float vector v / c is kept exactly as the pair [num |-> v, den2 |->   *)
(* c*c]; a similarity x / sqrt(d) is kept as [nan, num |-> x, den2 |-> d]. *)
(* Comparisons are done exactly on these pairs, so "equal within floating  *)
(* tolerance" is equality of the real values.  0.0/0.0 is NaN, as in       *)
(* numpy.                                                                  *)
(***************************************************************************)
EXTENDS Integers, Sequences, FiniteSets

\* Most entries one store holds in a run with a snapshot file.
MaxEntries == 2
\* Most entries the store holds in a run of searches.
MaxSearched == 3
\* Most files of a repository, and most texts of one embedding call.
MaxFiles == 3
\* Largest batch size of an embedding call.
MaxBatch == 2
\* Most entries a snapshot file holds in a run of update_index calls.
MaxIndexed == 4
\* Most files of a repository, and most entries its snapshot file holds, in
\* a run of update_index calls of two tasks.
MaxRaceFiles == 2
MaxRaced == 3

\* Most entries an index file holds in a run of search_code and get_file.
MaxMerged == 2

Stores == {"s1", "s2"}
Paths == {"repo.pkl"}
None == "None"

\* File contents to index, and the vector the embedder gives for each
\* (components in tenths): three directions of the embedding space, the
\* all-zero vector and the zero-length vector.
EmbeddingOf(code) ==
    CASE code = "x" -> <<10, 0>>
      [] code = "y" -> <<0, 10>>
      [] code = "xy" -> <<9, 1>>
      [] code = "zero" -> <<0, 0>>
      [] code = "empty" -> <<>>
Meta(f, c) == [file |-> f, code |-> c]

\* Files indexed in a run with a snapshot file, and in a run of searches:
\* two files of equal content, two contents of one path.
SavedFiles == {Meta("a.py", "x"), Meta("a.py", "zero")}
SearchedFiles ==
    {Meta("a.py", "x"), Meta("b.py", "x"), Meta("a.py", "y"),
     Meta("b.py", "xy"), Meta("b.py", "zero"), Meta("b.py", "empty")}

\* The files of a repository in the order rglob yields them, and what each
\* holds.
FileNames == <<"a.py", "b.py", "c.py", "d.py", "e.py">>
Contents == <<"x", "xy", "y", "x", "xy">>
\* Texts for which text.strip() is empty.
Blanks == {"", " "}

\* The first n contents, the one at position at (if any) blank.
Texts(n, at, blank) ==
    [k \in 1 .. n |-> IF k = at THEN blank ELSE Contents[k]]
TextLists ==
    {Texts(n, at, blank) : n \in 0 .. MaxFiles, at \in 0 .. MaxFiles,
                           blank \in Blanks}
\* A repository of n files: file_metadata as update_index collects it.
Repos ==
    {[k \in 1 .. Len(texts) |-> Meta(FileNames[k], texts[k])] :
        texts \in TextLists}
\* What the embedding API does with a request: answers it, fails, or
\* answers with JSON that has no "data".
Answers == {"ok", "HTTPError", "KeyError"}
\* The same, and the answers of an API whose "data" has one item less, or
\* one item more, than the request has texts.
Replies == Answers \cup {"short", "long"}

\* Query vectors handed to search: embeddings of the store's dimension.
Queries == {<<10, 0>>, <<9, 1>>, <<0, 0>>}
TopKs == 0 .. (MaxSearched + 1)
\* Outcomes of the file write inside save.
IOs == {"ok", "open_fails", "write_fails"}
\* Where a process can be killed inside add() on a store with a location.
KillPoints == {"killed_before_open", "killed_in_write", "killed_after_write"}

\* Files that something other than save() left at a store's location: a cut
\* stream, a pickled triple, and a pickled pair of two embeddings and one
\* metadata record.
ForeignFiles ==
    {[exists |-> TRUE, obj |-> <<<<>>, <<>>>>, stop |-> FALSE],
     [exists |-> TRUE, obj |-> <<<<>>, <<>>, <<>>>>, stop |-> TRUE],
     [exists |-> TRUE, stop |-> TRUE,
      obj |-> <<<<[num |-> <<0, 10>>, den2 |-> 100],
                  [num |-> <<10, 0>>, den2 |-> 100]>>,
                <<Meta("a.py", "y")>>>>]}

\* opened[s]       a store object is bound to the name s
\* pickle_path[s]  its location, or None
\* embeddings[s]   self.embeddings
\* metadata[s]     self.metadata
\* fs[p]           the file at location p
\* synced          the stores whose sequences are what the file at their
\*                 location holds because they wrote it (add or save) last
\* results         what the last search returned
\* last            the last call: method, store, vector, top_k, exception
\* task[s]        the embedding or update_index call under way whose store
\*                object, if it has one, is s
VARIABLES opened, pickle_path, embeddings, metadata, fs, synced, results,
          last, task

storevars == <<opened, pickle_path, embeddings, metadata, fs, synced, results,
               last>>

vars == <<opened, pickle_path, embeddings, metadata, fs, synced, results,
          last, task>>

----------------------------------------------------------------------------
(* numpy arithmetic *)

RECURSIVE Dot(_, _)
Dot(a, b) ==
    IF Len(a) = 0 THEN 0 ELSE a[1] * b[1] + Dot(Tail(a), Tail(b))

\* numpy.linalg.norm(v), squared.
NormSq(v) == Dot(v, v)

\* embedding / norm(embedding): every component divided by the norm.
Normalize(v) == [num |-> v, den2 |-> NormSq(v)]

\* A component x / sqrt(0) with x = 0 is NaN; every component of a vector
\* whose norm is 0 is 0, so such a vector is NaN throughout. A zero-length
\* vector has no component at all.
IsNaNVector(e) == Len(e.num) > 0 /\ e.den2 = 0

NaN == [nan |-> TRUE, num |-> 0, den2 |-> 1]

\* np.dot of two float vectors kept as pairs.
Similarity(e, q) ==
    IF IsNaNVector(e) \/ IsNaNVector(q) THEN NaN
    ELSE IF Len(e.num) = 0 THEN [nan |-> FALSE, num |-> 0, den2 |-> 1]
    ELSE [nan |-> FALSE, num |-> Dot(e.num, q.num), den2 |-> e.den2 * q.den2]

\* x < y on the reals x.num / sqrt(x.den2), y.num / sqrt(y.den2).
RealLess(x, y) ==
    IF x.num >= 0 /\ y.num >= 0
        THEN x.num * x.num * y.den2 < y.num * y.num * x.den2
    ELSE IF x.num < 0 /\ y.num < 0
        THEN x.num * x.num * y.den2 > y.num * y.num * x.den2
    ELSE x.num < 0

\* The order numpy sorts floats by: NaN after every number.
SortsBefore(x, y) == ~x.nan /\ (y.nan \/ RealLess(x, y))

\* IEEE x >= y: false as soon as one side is NaN.
FloatGeq(x, y) == ~x.nan /\ ~y.nan /\ ~RealLess(x, y)

IsOne(x) == ~x.nan /\ x.num > 0 /\ x.num * x.num = x.den2

\* np.argsort(similarities): an index order that sorts ascending. The order
\* of equal elements is not fixed by the default (unstable) sort kind, so
\* every ascending order is a possible outcome. Built back to front: the
\* last index is one that no other index has to come after.
RECURSIVE AscendingOrders(_, _)
AscendingOrders(sims, indices) ==
    IF indices = {} THEN {<<>>}
    ELSE UNION {{Append(p, i) : p \in AscendingOrders(sims, indices \ {i})} :
                 i \in {j \in indices :
                          \A k \in indices : ~SortsBefore(sims[j], sims[k])}}

ArgSorts(sims) == AscendingOrders(sims, 1 .. Len(sims))

\* seq[:k] in the place of seq[-k:].
LastKFromFront(seq, k) ==
    IF k = 0 \/ k >= Len(seq) THEN seq ELSE SubSeq(seq, 1, k)

\* Python's seq[-k:]; -0 is 0, so k = 0 takes the whole sequence.
LastK(seq, k) ==
    IF k = 0 \/ k >= Len(seq) THEN seq
    ELSE SubSeq(seq, Len(seq) - k + 1, Len(seq))

\* Python's seq[::-1].
Reverse(seq) == [i \in 1 .. Len(seq) |-> seq[Len(seq) + 1 - i]]

----------------------------------------------------------------------------
(* the snapshot file *)

NoFile == [exists |-> FALSE, obj |-> <<<<>>, <<>>>>, stop |-> FALSE]

\* pickle.dump((self.embeddings, self.metadata), f): the pickled pair,
\* closed by the STOP opcode.
Pickled(embs, metas) == [exists |-> TRUE, obj |-> <<embs, metas>>, stop |-> TRUE]

\* What open(path, "wb") leaves when the dump does not complete: the file
\* is truncated and the stream is not closed.
Truncated == [exists |-> TRUE, obj |-> <<<<>>, <<>>>>, stop |-> FALSE]

\* pickle.load raises on a stream without STOP.
Unreadable(file) == file.exists /\ ~file.stop

\* Line 62 unpacks what pickle.load returned into two names: an object of
\* another arity raises ValueError. Nothing else about the object is looked
\* at.
UnpackRaises(file) == Len(file.obj) # 2

LoadRaises(file) == Unreadable(file) \/ UnpackRaises(file)

LoadError(file) == IF Unreadable(file) THEN "UnpicklingError" ELSE "ValueError"

\* load() handing the embeddings back in the opposite order.
UnpickledReversed(file) ==
    [embeddings |-> Reverse(file.obj[1]), metadata |-> file.obj[2]]

\* save() replacing the file only by a completely written one.
KilledFileAtomic(embs, metas, point, file) ==
    IF point = "killed_after_write" THEN Pickled(embs, metas) ELSE file

\* The file a process leaves that is killed inside add(), after the
\* appends: before save() has opened it, between open(path, "wb") and the
\* close that ends the with-block, or after the close.
KilledFile(embs, metas, point, file) ==
    IF point = "killed_before_open" THEN file
    ELSE IF point = "killed_in_write" THEN Truncated
    ELSE Pickled(embs, metas)

\* self.embeddings, self.metadata = pickle.load(f)
Unpickled(file) == [embeddings |-> file.obj[1], metadata |-> file.obj[2]]

----------------------------------------------------------------------------
(* InMemoryVectorStore, method by method *)

Size(s) == Len(embeddings[s])

FileOf(s) == IF pickle_path[s] = None THEN NoFile ELSE fs[pickle_path[s]]

\* Stores opened on the same location as s.
SharingPath(s) ==
    {t \in Stores : pickle_path[s] # None /\ pickle_path[t] = pickle_path[s]}

Op(op, s, v, k, err) == [op |-> op, s |-> s, v |-> v, k |-> k, err |-> err]

\* load(): the guard of line 60, then the read.
LoadReads(path, file) == path # None /\ file.exists

Loaded(embs, metas, path, file) ==
    IF LoadReads(path, file) THEN Unpickled(file)
    ELSE [embeddings |-> embs, metadata |-> metas]

\* save() writing to a default location when the store has none.
SaveTargetDefault(path) == IF path = None THEN "repo.pkl" ELSE path

\* save(): the guard of line 54. The file written is the store's location,
\* and none when it has no location.
SaveTarget(path) == path

\* save() adding the newest entry to what the file holds.
SaveFileAppending(path, embs, metas, io, file) ==
    IF path = None \/ io = "open_fails" THEN file
    ELSE IF io = "write_fails" THEN Truncated
    ELSE IF embs = <<>> \/ metas = <<>> THEN Pickled(embs, metas)
    ELSE Pickled(Append(file.obj[1], embs[Len(embs)]),
                 Append(file.obj[2], metas[Len(metas)]))

\* save(): the file after the call, by the outcome of the write.
SaveFile(path, embs, metas, io, file) ==
    IF path = None \/ io = "open_fails" THEN file
    ELSE IF io = "write_fails" THEN Truncated
    ELSE Pickled(embs, metas)

SaveError(path, io) == IF path # None /\ io # "ok" THEN "OSError" ELSE "none"

\* add() putting the new embedding in front.
AddEmbeddingFirst(embs, v) == <<Normalize(v)>> \o embs

\* add(): lines 22-24 and the guard of line 27.
AddEmbedding(embs, v) == Append(embs, Normalize(v))

\* add() without line 24.
AddMetadataSkipped(metas, m) == metas

AddMetadata(metas, m) == Append(metas, m)

\* add() without lines 27-28.
AutoSaveOff(path) == FALSE

AutoSave(path) == path # None

\* search() binding the array it has built to self.embeddings, rows in the
\* order it ranks them last to first.
SearchRebinds(embs) == Reverse(embs)

\* search(): np.array(self.embeddings) of line 41 is a new array, and
\* nothing is assigned to self.embeddings, which stays the list it was.
SearchKeeps(embs) == embs

\* search() without the guard of lines 34-35.
StoreIsEmptyUnchecked(embs) == FALSE

\* search(): lines 34-50.
StoreIsEmpty(embs) == embs = <<>>

\* np.array(self.embeddings) needs rows of one length, and np.dot needs that
\* length to be the query's; np.array([]) has shape (0,).
ShapeError(embs, q) ==
    IF embs = <<>> THEN Len(q) # 0
    ELSE \E i \in 1 .. Len(embs) : Len(embs[i].num) # Len(q)

Similarities(embs, q) ==
    [i \in 1 .. Len(embs) |-> Similarity(embs[i], Normalize(q))]

\* search() without the [::-1] of line 47.
TopIndicesAscending(order, top_k) == LastK(order, top_k)

TopIndices(order, top_k) == Reverse(LastK(order, top_k))

\* self.metadata[i] of line 50 for an index the metadata list does not have.
MetadataMissing(metas, top_indices) ==
    \E j \in 1 .. Len(top_indices) : top_indices[j] > Len(metas)

Scored(metas, sims, top_indices) ==
    [j \in 1 .. Len(top_indices) |->
        [meta |-> metas[top_indices[j]], score |-> sims[top_indices[j]]]]

\* clear() without lines 68-69.
ClearKeepsFile(path, file) == FALSE

\* clear(): the guard of line 68.
ClearRemoves(path, file) == path # None /\ file.exists

----------------------------------------------------------------------------
(* EmbeddingService and update_index *)

\* A call: which function, where it stands, its texts and metadata records,
\* batch size, offset of the current batch, the embeddings gathered, the
\* requests sent, the last answer of the API, how the call ended, and the
\* number of add calls made.
NoCall ==
    [call |-> "none", pc |-> "idle", is_str |-> FALSE, texts |-> <<>>,
     metas |-> <<>>, batch_size |-> 1, i |-> 0, all_embeddings |-> <<>>,
     requests |-> <<>>, answer |-> "none", outcome |-> "none", j |-> 0]

\* not t.strip()
Blank(t) == t \in Blanks

\* get_embedding without the any(...) of line 36.
InvalidEmptyOnly(is_str, texts) ==
    IF is_str THEN Blank(texts[1]) ELSE texts = <<>>

\* get_embedding(): the checks of lines 33-37.
Invalid(is_str, texts) ==
    IF is_str THEN Blank(texts[1])
    ELSE texts = <<>> \/ \E k \in 1 .. Len(texts) : Blank(texts[k])

\* get_batch_embeddings slicing texts[:batch_size] each time round.
BatchFromStart(texts, i, batch_size) ==
    SubSeq(texts, 1, IF batch_size < Len(texts) THEN batch_size ELSE Len(texts))

\* texts[i : i + batch_size]
Batch(texts, i, batch_size) ==
    SubSeq(texts, i + 1,
           IF i + batch_size < Len(texts) THEN i + batch_size ELSE Len(texts))

\* Line 51 on the answer of an API that embeds each text of the request, in
\* order.
Embedded(batch) == [k \in 1 .. Len(batch) |-> EmbeddingOf(batch[k])]

\* Line 51 on the answer: one array for every item of "data", however many
\* texts the request had.
Answered(answer, batch) ==
    CASE answer = "ok" -> Embedded(batch)
      [] answer = "short" -> SubSeq(Embedded(batch), 1, Len(batch) - 1)
      [] answer = "long" -> Append(Embedded(batch), EmbeddingOf(batch[Len(batch)]))
      [] OTHER -> <<>>

\* get_embedding returning normally whatever the API did.
RaisedNever(answer) == "none"

\* Lines 54-59: the exception is printed and raised again.
Raised(answer) == IF answer \in {"HTTPError", "KeyError"} THEN answer ELSE "none"

\* get_embedding(batch) up to its await: it raises on invalid input, and
\* otherwise has sent the request.
GetEmbeddingEntered(c, is_str, batch) ==
    IF Invalid(is_str, batch)
       THEN [c EXCEPT !.pc = "done", !.outcome = "ValueError: Empty input"]
       ELSE [c EXCEPT !.pc = "awaiting", !.requests = Append(@, batch)]

\* get_batch_embeddings(c.texts, c.batch_size) up to its first await.
GetBatchEntered(c) ==
    IF c.texts = <<>>
       THEN [c EXCEPT !.pc = "done", !.outcome = "ValueError: Empty input"]
       ELSE GetEmbeddingEntered(c, FALSE, Batch(c.texts, 0, c.batch_size))

\* update_index calling get_batch_embeddings whatever it has collected.
HasFilesUnchecked(texts) == TRUE

\* update_index: if file_contents (line 263).
HasFiles(texts) == texts # <<>>

\* update_index: zip(embeddings, file_metadata, strict=False) stops with the
\* shorter list; then the success message.
Stored(c) ==
    IF c.j < Len(c.all_embeddings) /\ c.j < Len(c.metas)
       THEN [c EXCEPT !.pc = "storing"]
       ELSE [c EXCEPT !.pc = "done", !.outcome = "Successfully indexed"]

----------------------------------------------------------------------------

Init ==
    /\ opened = [s \in Stores |-> FALSE]
    /\ pickle_path = [s \in Stores |-> None]
    /\ embeddings = [s \in Stores |-> <<>>]
    /\ metadata = [s \in Stores |-> <<>>]
    /\ fs = [p \in Paths |-> NoFile]
    /\ synced = {}
    /\ results = <<>>
    /\ last = Op("init", None, <<>>, 0, "none")
    /\ task = [s \in Stores |-> NoCall]

\* InMemoryVectorStore(pickle_path = p) bound to the name s. When load
\* raises, the constructor raises and s keeps what it was bound to.
Open(s, p) ==
    LET file == IF p = None THEN NoFile ELSE fs[p]
        new == Loaded(<<>>, <<>>, p, file)
    IN  /\ results' = <<>>
        /\ UNCHANGED fs
        /\ IF LoadReads(p, file) /\ LoadRaises(file)
              THEN /\ last' = Op("open", s, <<>>, 0, LoadError(file))
                   /\ UNCHANGED <<opened, pickle_path, embeddings, metadata,
                                  synced>>
              ELSE /\ opened' = [opened EXCEPT ![s] = TRUE]
                   /\ pickle_path' = [pickle_path EXCEPT ![s] = p]
                   /\ embeddings' = [embeddings EXCEPT ![s] = new.embeddings]
                   /\ metadata' = [metadata EXCEPT ![s] = new.metadata]
                   /\ synced' = synced \ {s}
                   /\ last' = Op("open", s, <<>>, 0, "none")

Load(s) ==
    LET new == Loaded(embeddings[s], metadata[s], pickle_path[s], FileOf(s))
    IN  /\ opened[s]
        /\ results' = <<>>
        /\ UNCHANGED <<opened, pickle_path, fs>>
        /\ IF LoadReads(pickle_path[s], FileOf(s)) /\ LoadRaises(FileOf(s))
              THEN /\ last' = Op("load", s, <<>>, 0, LoadError(FileOf(s)))
                   /\ UNCHANGED <<embeddings, metadata, synced>>
              ELSE /\ embeddings' = [embeddings EXCEPT ![s] = new.embeddings]
                   /\ metadata' = [metadata EXCEPT ![s] = new.metadata]
                   /\ synced' = synced \ {s}
                   /\ last' = Op("load", s, <<>>, 0, "none")

\* The file, and the stores whose sequences are what the file holds because
\* they wrote it, after s has run save() on embs, metas with outcome io.
Written(s, embs, metas, io) ==
    /\ fs' = IF SaveTarget(pickle_path[s]) = None THEN fs
             ELSE [fs EXCEPT ![SaveTarget(pickle_path[s])] =
                      SaveFile(SaveTarget(pickle_path[s]), embs, metas, io, @)]
    /\ synced' = IF pickle_path[s] = None THEN synced
                 ELSE IF io = "ok" THEN (synced \ SharingPath(s)) \cup {s}
                 ELSE IF io = "write_fails" THEN synced \ SharingPath(s)
                 ELSE synced \ {s}

Save(s, io) ==
    /\ opened[s]
    /\ pickle_path[s] = None => io = "ok"
    /\ Written(s, embeddings[s], metadata[s], io)
    /\ results' = <<>>
    /\ last' = Op("save", s, <<>>, 0, SaveError(pickle_path[s], io))
    /\ UNCHANGED <<opened, pickle_path, embeddings, metadata>>

\* add(embedding, metadata) with a numeric array v.
AddVector(s, v, m, io) ==
    LET embs == AddEmbedding(embeddings[s], v)
        metas == AddMetadata(metadata[s], m)
    IN  /\ embeddings' = [embeddings EXCEPT ![s] = embs]
        /\ metadata' = [metadata EXCEPT ![s] = metas]
        /\ IF AutoSave(pickle_path[s])
              THEN /\ Written(s, embs, metas, io)
                   /\ last' = Op("add", s, v, 0, SaveError(pickle_path[s], io))
              ELSE /\ io = "ok"
                   /\ synced' = synced \ {s}
                   /\ last' = Op("add", s, v, 0, "none")
                   /\ UNCHANGED fs

\* add(embedding, metadata) with something norm() cannot take: line 22
\* raises before anything is appended.
AddNotAVector(s) ==
    /\ last' = Op("add", s, <<>>, 0, "TypeError")
    /\ UNCHANGED <<embeddings, metadata, fs, synced>>

\* One add call on s, as update_index makes it: the embedding of a file's
\* content with the file's metadata record.
Add(s, inputs, max) ==
    /\ opened[s]
    /\ Len(embeddings[s]) < max
    /\ results' = <<>>
    /\ UNCHANGED <<opened, pickle_path>>
    /\ \/ \E m \in inputs, io \in IOs :
            AddVector(s, EmbeddingOf(m.code), m, io)
       \/ AddNotAVector(s)

Clear(s) ==
    /\ opened[s]
    /\ embeddings' = [embeddings EXCEPT ![s] = <<>>]
    /\ metadata' = [metadata EXCEPT ![s] = <<>>]
    /\ IF ClearRemoves(pickle_path[s], FileOf(s))
          THEN /\ fs' = [fs EXCEPT ![pickle_path[s]] = NoFile]
               /\ synced' = synced \ SharingPath(s)
          ELSE /\ UNCHANGED fs
               /\ synced' = synced \ {s}
    /\ results' = <<>>
    /\ last' = Op("clear", s, <<>>, 0, "none")
    /\ UNCHANGED <<opened, pickle_path>>

Search(s, q, top_k) ==
    /\ opened[s]
    /\ embeddings' = [embeddings EXCEPT ![s] = SearchKeeps(@)]
    /\ UNCHANGED <<opened, pickle_path, metadata, fs, synced>>
    /\ IF StoreIsEmpty(embeddings[s])
          THEN /\ results' = <<>>
               /\ last' = Op("search", s, q, top_k, "none")
       ELSE IF ShapeError(embeddings[s], q)
          THEN /\ results' = <<>>
               /\ last' = Op("search", s, q, top_k, "ValueError")
       ELSE LET sims == Similarities(embeddings[s], q)
            IN  \E order \in ArgSorts(sims) :
                  LET top_indices == TopIndices(order, top_k)
                  IN  IF MetadataMissing(metadata[s], top_indices)
                         THEN /\ results' = <<>>
                              /\ last' = Op("search", s, q, top_k, "IndexError")
                         ELSE /\ results' = Scored(metadata[s], sims, top_indices)
                              /\ last' = Op("search", s, q, top_k, "none")

\* store.size: the number of embeddings, handed back in the k of last.
ReadSize(s) ==
    /\ opened[s]
    /\ results' = <<>>
    /\ last' = Op("size", s, <<>>, Len(embeddings[s]), "none")
    /\ UNCHANGED <<opened, pickle_path, embeddings, metadata, fs, synced>>

\* A call on a store by a caller that is no task.
NoTask == UNCHANGED task

\* Stores with a snapshot file: two store objects, one location.
Next ==
    \/ \E s \in Stores, p \in Paths \cup {None} : Open(s, p) /\ NoTask
    \/ \E s \in Stores : Load(s) /\ NoTask
    \/ \E s \in Stores, io \in IOs : Save(s, io) /\ NoTask
    \/ \E s \in Stores : Add(s, SavedFiles, MaxEntries) /\ NoTask
    \/ \E s \in Stores : Clear(s) /\ NoTask
    \/ \E s \in Stores : Search(s, <<10, 0>>, 1) /\ NoTask
    \/ \E s \in Stores : ReadSize(s) /\ NoTask

Spec == Init /\ [][Next]_vars

\* Searches: one store without a location, every content, query and top_k.
NextSearch ==
    \/ Open("s1", None) /\ NoTask
    \/ Add("s1", SearchedFiles, MaxSearched) /\ NoTask
    \/ Clear("s1") /\ NoTask
    \/ \E q \in Queries, k \in TopKs : Search("s1", q, k) /\ NoTask

SpecSearch == Init /\ [][NextSearch]_vars

\* Something other than a store leaves the file at p.
ForeignWrite(p, file) ==
    /\ fs' = [fs EXCEPT ![p] = file]
    /\ synced' = {s \in synced : pickle_path[s] # p}
    /\ results' = <<>>
    /\ last' = Op("foreign", None, <<>>, 0, "none")
    /\ UNCHANGED <<opened, pickle_path, embeddings, metadata>>

\* The process is killed inside add(embedding of m, m) on s, at point: the
\* file stays as the write left it and every store object is gone.
AddKilled(s, m, point) ==
    /\ opened[s]
    /\ AutoSave(pickle_path[s])
    /\ Len(embeddings[s]) < MaxEntries
    /\ fs' = [fs EXCEPT ![pickle_path[s]] =
                 KilledFile(AddEmbedding(embeddings[s], EmbeddingOf(m.code)),
                            AddMetadata(metadata[s], m), point, @)]
    /\ opened' = [t \in Stores |-> FALSE]
    /\ pickle_path' = [t \in Stores |-> None]
    /\ embeddings' = [t \in Stores |-> <<>>]
    /\ metadata' = [t \in Stores |-> <<>>]
    /\ synced' = {}
    /\ results' = <<>>
    /\ last' = Op("add", s, EmbeddingOf(m.code), 0, point)

\* Stores with a snapshot file that other writers and kills can reach.
NextFaults ==
    \/ \E s \in Stores, p \in Paths \cup {None} : Open(s, p) /\ NoTask
    \/ \E s \in Stores : Load(s) /\ NoTask
    \/ \E s \in Stores, io \in IOs : Save(s, io) /\ NoTask
    \/ \E s \in Stores : Add(s, SavedFiles, MaxEntries) /\ NoTask
    \/ \E s \in Stores : Clear(s) /\ NoTask
    \/ \E s \in Stores : Search(s, <<10, 0>>, 1) /\ NoTask
    \/ \E p \in Paths, file \in ForeignFiles : ForeignWrite(p, file) /\ NoTask
    \/ \E s \in Stores, m \in SavedFiles, point \in KillPoints :
          AddKilled(s, m, point) /\ NoTask

SpecFaults == Init /\ [][NextFaults]_vars

\* await get_embedding(text) called by s, up to the await of the request.
GetEmbedding(s, is_str, texts) ==
    /\ task[s].pc \in {"idle", "done"}
    /\ task' = [task EXCEPT ![s] =
                   GetEmbeddingEntered(
                       [NoCall EXCEPT !.call = "get_embedding",
                                      !.is_str = is_str, !.texts = texts],
                       is_str, texts)]
    /\ UNCHANGED storevars

\* await get_batch_embeddings(texts, batch_size) called by s, up to the
\* await of the first request.
GetBatchEmbeddings(s, texts, batch_size) ==
    /\ task[s].pc \in {"idle", "done"}
    /\ task' = [task EXCEPT ![s] =
                   GetBatchEntered(
                       [NoCall EXCEPT !.call = "get_batch_embeddings",
                                      !.texts = texts,
                                      !.batch_size = batch_size])]
    /\ UNCHANGED storevars

\* The request of s is answered and its call runs on to its next await or
\* its end: get_embedding returns or raises; get_batch_embeddings extends
\* all_embeddings and goes round the loop of lines 79-86; update_index goes
\* on to its add loop once get_batch_embeddings has returned.
Respond(s, answer) ==
    LET c == task[s]
        batch == c.requests[Len(c.requests)]
        got == [c EXCEPT !.answer = answer,
                         !.all_embeddings =
                             @ \o Answered(answer, batch),
                         !.i = @ + c.batch_size]
    IN  /\ c.pc = "awaiting"
        /\ task' = [task EXCEPT ![s] =
               IF Raised(answer) # "none"
                  THEN [c EXCEPT !.answer = answer, !.pc = "done",
                                 !.outcome = Raised(answer)]
               ELSE IF c.call = "get_embedding"
                  THEN [got EXCEPT !.pc = "done",
                            !.outcome = IF c.is_str /\ got.all_embeddings = <<>>
                                           THEN "IndexError" ELSE "returned"]
               ELSE IF got.i < Len(c.texts)
                  THEN GetEmbeddingEntered(
                           got, FALSE, Batch(c.texts, got.i, c.batch_size))
               ELSE IF c.call = "get_batch_embeddings"
                  THEN [got EXCEPT !.pc = "done", !.outcome = "returned"]
               ELSE Stored(got)]
        /\ UNCHANGED storevars

\* update_index(repo_path) called by s, up to its first await: the path
\* check, the store opened on the repository's pickle file p, the files
\* read, and get_batch_embeddings entered when there are any.
UpdateIndex(s, p, repo, batch_size) ==
    LET c == [NoCall EXCEPT !.call = "update_index",
                            !.texts = [k \in 1 .. Len(repo) |-> repo[k].code],
                            !.metas = repo, !.batch_size = batch_size]
    IN  /\ task[s].pc \in {"idle", "done"}
        /\ (fs[p].exists /\ ~LoadRaises(fs[p])) =>
              Len(fs[p].obj[1]) + Len(repo) <= MaxIndexed
        /\ \/ /\ task' = [task EXCEPT ![s] =
                     [NoCall EXCEPT !.call = "update_index", !.pc = "done",
                          !.outcome = "Repository path does not exist"]]
              /\ repo = <<>>
              /\ UNCHANGED storevars
           \/ /\ Open(s, p)
              /\ task' = [task EXCEPT ![s] =
                     IF LoadReads(p, fs[p]) /\ LoadRaises(fs[p])
                        THEN [NoCall EXCEPT !.call = "update_index",
                                            !.pc = "done",
                                            !.outcome = LoadError(fs[p])]
                     ELSE IF HasFiles(c.texts) THEN GetBatchEntered(c)
                     ELSE [c EXCEPT !.pc = "done",
                                    !.outcome = "No files to index"]]

\* update_index: one round of the loop of lines 270-273. An exception of
\* the save inside add ends update_index.
StoreNext(s, io) ==
    LET c == task[s]
    IN  /\ c.pc = "storing"
        /\ AddVector(s, c.all_embeddings[c.j + 1], c.metas[c.j + 1], io)
        /\ results' = <<>>
        /\ UNCHANGED <<opened, pickle_path>>
        /\ task' = [task EXCEPT ![s] =
               IF SaveError(pickle_path[s], io) # "none"
                  THEN [c EXCEPT !.j = @ + 1, !.pc = "done",
                                 !.outcome = SaveError(pickle_path[s], io)]
                  ELSE Stored([c EXCEPT !.j = @ + 1])]

\* One caller: embedding calls and update_index calls on one repository.
NextIndex ==
    \/ \E t \in Blanks \cup {"x"} : GetEmbedding("s1", TRUE, <<t>>)
    \/ \E texts \in TextLists : GetEmbedding("s1", FALSE, texts)
    \/ \E texts \in TextLists, b \in 1 .. MaxBatch :
          GetBatchEmbeddings("s1", texts, b)
    \/ \E answer \in Answers : Respond("s1", answer)
    \/ \E p \in Paths, repo \in Repos, b \in 1 .. MaxBatch :
          UpdateIndex("s1", p, repo, b)
    \/ \E io \in IOs : StoreNext("s1", io)

SpecIndex == Init /\ [][NextIndex]_vars

\* Repositories without a blank file.
PlainRepos ==
    {repo \in Repos : \A k \in 1 .. Len(repo) : ~Blank(repo[k].code)}

\* The same caller, on repositories without a blank file, with an embedding
\* API that is free in the number of items it answers with.
NextReplies ==
    \/ GetEmbedding("s1", TRUE, <<"x">>)
    \/ \E answer \in Replies : Respond("s1", answer)
    \/ \E p \in Paths, repo \in PlainRepos, b \in 1 .. MaxBatch :
          UpdateIndex("s1", p, repo, b)
    \/ \E io \in IOs : StoreNext("s1", io)

SpecReplies == Init /\ [][NextReplies]_vars

\* Tasks of one event loop: s runs from one await to its next, so it takes
\* a step only when no other task is inside its add loop, which has no
\* await.
Scheduled(s) == \A t \in Stores \ {s} : task[t].pc # "storing"

\* What the two tasks index: small repositories, while the snapshot is
\* small.
RaceRepos(p) ==
    {repo \in PlainRepos :
        /\ Len(repo) <= MaxRaceFiles
        /\ Len(fs[p].obj[1]) + Len(repo) <= MaxRaced}

\* Two update_index calls at a time, each with a store object of its own.
NextRace ==
    \/ \E s \in Stores, p \in Paths, b \in 1 .. MaxBatch :
          \E repo \in RaceRepos(p) : Scheduled(s) /\ UpdateIndex(s, p, repo, b)
    \/ \E s \in Stores, answer \in Answers : Scheduled(s) /\ Respond(s, answer)
    \/ \E s \in Stores, io \in IOs : Scheduled(s) /\ StoreNext(s, io)

SpecRace == Init /\ [][NextRace]_vars

----------------------------------------------------------------------------
\* The tools search_code and get_file of the server, on the index files of
\* two repositories.

\* The .pkl files of indices_dir, one per repository.
IndexFiles == {"repo.pkl", "other.pkl"}

\* What update_index has left in an index file: entries of a file indexed
\* twice with two contents, and of a file whose embedding is all zero.
IndexedFiles == {Meta("a.py", "x"), Meta("a.py", "xy"), Meta("b.py", "zero")}

RECURSIVE SeqsUpTo(_, _)
SeqsUpTo(S, n) ==
    IF n = 0 THEN {<<>>}
    ELSE SeqsUpTo(S, n - 1)
         \cup {Append(seq, x) : seq \in {t \in SeqsUpTo(S, n - 1) : Len(t) = n - 1},
                                x \in S}

\* A snapshot written by add: the normalised embedding of every entry with
\* its metadata.
Snapshot(metas) ==
    Pickled([i \in 1 .. Len(metas) |-> Normalize(EmbeddingOf(metas[i].code))],
            metas)

Snapshots(n) == {Snapshot(metas) : metas \in SeqsUpTo(IndexedFiles, n)}

\* Values of num_results, embeddings of the query, and what the embedder
\* does when asked for them.
NumResults == 0 .. MaxMerged
QueryEmbeddings == {<<10, 0>>, <<9, 1>>}
QueryAnswers == {"ok", "HTTPError"}

\* Python's x < y on floats: false as soon as one side is NaN.
FloatLess(x, y) == ~x.nan /\ ~y.nan /\ RealLess(x, y)

\* list.sort of CPython for a list shorter than 64, which is one run:
\* count_run finds the run the list starts with (strictly descending, or
\* non-descending), a descending run is reversed, and binarysort inserts
\* every later element at the place a bisection with < finds for it.
RECURSIVE RunEnd(_, _, _)
RunEnd(seq, n, descending) ==
    IF n = Len(seq) THEN n
    ELSE IF FloatLess(seq[n + 1].score, seq[n].score) = descending
        THEN RunEnd(seq, n + 1, descending)
    ELSE n

CountRun(seq) ==
    IF Len(seq) < 2 THEN [n |-> Len(seq), descending |-> FALSE]
    ELSE LET descending == FloatLess(seq[2].score, seq[1].score)
         IN  [n |-> RunEnd(seq, 2, descending), descending |-> descending]

RECURSIVE Bisect(_, _, _, _)
Bisect(seq, pivot, l, r) ==
    IF l >= r THEN l
    ELSE LET p == l + ((r - l) \div 2)
         IN  IF FloatLess(pivot.score, seq[p].score)
                THEN Bisect(seq, pivot, l, p)
                ELSE Bisect(seq, pivot, p + 1, r)

RECURSIVE BinarySort(_, _)
BinarySort(seq, start) ==
    IF start > Len(seq) THEN seq
    ELSE LET pivot == seq[start]
             l == Bisect(seq, pivot, 1, start)
             moved == [i \in 1 .. Len(seq) |->
                         IF i < l \/ i > start THEN seq[i]
                         ELSE IF i = l THEN pivot
                         ELSE seq[i - 1]]
         IN  BinarySort(moved, start + 1)

ListSort(seq) ==
    LET run == CountRun(seq)
        first == IF run.descending
                    THEN Reverse(SubSeq(seq, 1, run.n))
                         \o SubSeq(seq, run.n + 1, Len(seq))
                    ELSE seq
    IN  BinarySort(first, run.n + 1)

\* all_results.sort(key = score, reverse = True): the list is reversed,
\* sorted ascending and reversed again, which keeps equal keys in order.
SortReverse(seq) == Reverse(ListSort(Reverse(seq)))

\* seq[:k] for k >= 0.
FirstK(seq, k) == IF k >= Len(seq) THEN seq ELSE SubSeq(seq, 1, k)

\* The orders in which glob can yield the files of a set.
RECURSIVE GlobOrders(_)
GlobOrders(S) ==
    IF S = {} THEN {<<>>}
    ELSE UNION {{<<p>> \o rest : rest \in GlobOrders(S \ {p})} : p \in S}

\* One round of the loop of search_code, lines 162-167: the store made of
\* an index file, and its search when it is not empty. Every outcome is
\* the exception raised if any, and the results the store gave.
StoreOutcomes(file, q, num_results, answer) ==
    IF LoadRaises(file) THEN {[err |-> LoadError(file), res |-> <<>>]}
    ELSE LET store == Unpickled(file)
             sims == Similarities(store.embeddings, q)
         IN  IF Len(store.embeddings) = 0
                THEN {[err |-> "none", res |-> <<>>]}
             ELSE IF Raised(answer) # "none"
                THEN {[err |-> Raised(answer), res |-> <<>>]}
             ELSE IF ShapeError(store.embeddings, q)
                THEN {[err |-> "ValueError", res |-> <<>>]}
             ELSE {LET top_indices == TopIndices(order, num_results)
                   IN  IF MetadataMissing(store.metadata, top_indices)
                          THEN [err |-> "IndexError", res |-> <<>>]
                          ELSE [err |-> "none",
                                res |-> Scored(store.metadata, sims, top_indices)]
                   : order \in ArgSorts(sims)}

\* The loop of search_code over the files in the order they are listed:
\* all_results when no round raises, and the first exception otherwise.
RECURSIVE Gathered(_, _, _, _)
Gathered(files, q, num_results, answer) ==
    IF files = <<>> THEN {[err |-> "none", res |-> <<>>]}
    ELSE UNION {IF o.err # "none" THEN {o}
                ELSE {[err |-> g.err,
                       res |-> IF g.err = "none" THEN o.res \o g.res ELSE <<>>]
                      : g \in Gathered(Tail(files), q, num_results, answer)}
                : o \in StoreOutcomes(Head(files), q, num_results, answer)}

\* search_code(query, num_results, repository), where q is the embedding of
\* the query and answer what the embedder does when asked for it. The err
\* of last is the exception raised, or the kind of the text returned in
\* place of results.
SearchCode(repository, q, num_results, answer) ==
    /\ UNCHANGED <<opened, pickle_path, embeddings, metadata, fs, synced, task>>
    /\ IF repository # None /\ ~fs[repository].exists
          THEN /\ results' = <<>>
               /\ last' = Op("search_code", repository, q, num_results,
                             "not indexed")
          ELSE \E pickle_files \in
                    IF repository # None THEN {<<repository>>}
                    ELSE GlobOrders({p \in IndexFiles : fs[p].exists}) :
                 IF pickle_files = <<>>
                    THEN /\ results' = <<>>
                         /\ last' = Op("search_code", repository, q,
                                       num_results, "no indexes")
                    ELSE \E g \in Gathered([i \in 1 .. Len(pickle_files) |->
                                              fs[pickle_files[i]]],
                                           q, num_results, answer) :
                           IF g.err # "none"
                              THEN /\ results' = <<>>
                                   /\ last' = Op("search_code", repository, q,
                                                 num_results, g.err)
                           ELSE IF g.res = <<>>
                              THEN /\ results' = <<>>
                                   /\ last' = Op("search_code", repository, q,
                                                 num_results, "no matches")
                           ELSE /\ results' = FirstK(SortReverse(g.res),
                                                     num_results)
                                /\ last' = Op("search_code", repository, q,
                                              num_results, "none")

\* get_file returning the latest entry of the path.
LastMatch(metas, file_path) ==
    IF \A i \in 1 .. Len(metas) : metas[i].file # file_path THEN 0
    ELSE CHOOSE i \in 1 .. Len(metas) :
            /\ metas[i].file = file_path
            /\ \A j \in (i + 1) .. Len(metas) : metas[j].file # file_path

\* The loop of get_file, lines 201-210: the index of the metadata it
\* returns at, 0 when it runs to the end.
RECURSIVE MatchFrom(_, _, _)
MatchFrom(metas, file_path, i) ==
    IF i > Len(metas) THEN 0
    ELSE IF metas[i].file = file_path THEN i
    ELSE MatchFrom(metas, file_path, i + 1)

FirstMatch(metas, file_path) == MatchFrom(metas, file_path, 1)

\* get_file(file_path, repository): results is the one metadata returned,
\* file_path is kept in the v of last.
GetFile(repository, file_path) ==
    /\ UNCHANGED <<opened, pickle_path, embeddings, metadata, fs, synced, task>>
    /\ IF ~fs[repository].exists
          THEN /\ results' = <<>>
               /\ last' = Op("get_file", repository, file_path, 0, "not indexed")
       ELSE IF LoadRaises(fs[repository])
          THEN /\ results' = <<>>
               /\ last' = Op("get_file", repository, file_path, 0,
                             LoadError(fs[repository]))
       ELSE LET store == Unpickled(fs[repository])
                i == FirstMatch(store.metadata, file_path)
            IN  IF i = 0
                   THEN /\ results' = <<>>
                        /\ last' = Op("get_file", repository, file_path, 0,
                                      "not found")
                   ELSE /\ results' = <<store.metadata[i]>>
                        /\ last' = Op("get_file", repository, file_path, i,
                                      "none")

\* The server started on an indices_dir that earlier runs have written:
\* every index file is a snapshot, a file cut short, or not there. One
\* repository has one file less than the other.
InitTools ==
    /\ opened = [s \in Stores |-> FALSE]
    /\ pickle_path = [s \in Stores |-> None]
    /\ embeddings = [s \in Stores |-> <<>>]
    /\ metadata = [s \in Stores |-> <<>>]
    /\ \E repo \in Snapshots(MaxMerged) \cup {NoFile, Truncated},
          other \in Snapshots(MaxMerged - 1) \cup {NoFile, Truncated} :
            fs = [p \in IndexFiles |-> IF p = "repo.pkl" THEN repo ELSE other]
    /\ synced = {}
    /\ results = <<>>
    /\ last = Op("init", None, <<>>, 0, "none")
    /\ task = [s \in Stores |-> NoCall]

NextTools ==
    \/ \E repository \in IndexFiles \cup {None}, q \in QueryEmbeddings,
          num_results \in NumResults, answer \in QueryAnswers :
            SearchCode(repository, q, num_results, answer)
    \/ \E repository \in IndexFiles, file_path \in {"a.py", "b.py", "c.py"} :
            GetFile(repository, file_path)

SpecTools == InitTools /\ [][NextTools]_vars

----------------------------------------------------------------------------
(* Properties *)

\* What a store newly opened on s's location would hold.
Reopened(s) == Loaded(<<>>, <<>>, pickle_path[s], FileOf(s))

ReopenRaises(s) ==
    LoadReads(pickle_path[s], FileOf(s)) /\ LoadRaises(FileOf(s))

\* The L2 norm of a stored vector is 1.
UnitNorm(e) == e.den2 > 0 /\ NormSq(e.num) = e.den2

\* The ways to read res as distinct entries of the store s, each with its
\* similarity to the query q.
Selections(res, s, q) ==
    LET sims == Similarities(embeddings[s], q)
    IN  {idx \in [1 .. Len(res) -> 1 .. Size(s)] :
            /\ \A i, j \in 1 .. Len(res) : idx[i] = idx[j] => i = j
            /\ \A j \in 1 .. Len(res) :
                  res[j] = [meta |-> metadata[s][idx[j]],
                            score |-> sims[idx[j]]]}

Min(a, b) == IF a < b THEN a ELSE b

\* C1: in every state reached by open, add, save, load and clear, adds that
\* raise included, the embeddings and the metadata of a store have the same
\* length, and size is that length.
C1_ParallelSequences ==
    \A s \in Stores :
        Size(s) = Len(embeddings[s]) /\ Size(s) = Len(metadata[s])

\* An add has raised in save, after appending, on a store that holds two
\* entries.
C1_Witness ==
    last.op = "add" /\ last.err = "OSError" /\ Size(last.s) = 2

\* C2: with a location configured, once add has returned the snapshot
\* holds the store's sequences: a store opened on the location then has the
\* same size and entries, with no explicit save.
C2_AddIsDurable ==
    (last.op = "add" /\ last.err = "none" /\ pickle_path[last.s] # None)
    => /\ FileOf(last.s).exists
       /\ ~ReopenRaises(last.s)
       /\ Reopened(last.s).embeddings = embeddings[last.s]
       /\ Reopened(last.s).metadata = metadata[last.s]
       /\ Len(Reopened(last.s).embeddings) = Size(last.s)

C2_Witness ==
    /\ last.op = "add" /\ last.err = "none"
    /\ pickle_path[last.s] # None
    /\ Size(last.s) = 2

\* C3: a store opened on a location holds what the store that wrote the
\* snapshot (by add or save) holds: as many entries, in the same order, and
\* at every position the metadata is with the embedding it was added with.
C3_RoundTrip ==
    (last.op = "open" /\ last.err = "none")
    => /\ \A t \in synced :
            pickle_path[t] = pickle_path[last.s]
            => /\ Size(last.s) = Size(t)
               /\ embeddings[last.s] = embeddings[t]
               /\ metadata[last.s] = metadata[t]
       /\ \A i \in 1 .. Len(metadata[last.s]) :
            embeddings[last.s][i] =
                Normalize(EmbeddingOf(metadata[last.s][i].code))

\* A store has been opened on the snapshot another store wrote, with two
\* different entries in it.
C3_Witness ==
    /\ last.op = "open" /\ last.err = "none"
    /\ \E t \in synced : t # last.s /\ pickle_path[t] = pickle_path[last.s]
    /\ Size(last.s) = 2
    /\ metadata[last.s][1] # metadata[last.s][2]

\* C4: add with a zero-norm or zero-length vector fails with InvalidVector
\* and leaves the sequences and the snapshot as they were.
C4_ZeroVectorRejected ==
    [][(last'.op = "add" /\ last'.err # "TypeError" /\ NormSq(last'.v) = 0)
       => /\ last'.err = "InvalidVector"
          /\ embeddings' = embeddings
          /\ metadata' = metadata
          /\ fs' = fs]_vars

\* C5: every embedding a store holds, appended by add or read from a
\* snapshot, has L2 norm 1.
C5_UnitNorm ==
    \A s \in Stores : \A i \in 1 .. Len(embeddings[s]) :
        UnitNorm(embeddings[s][i])

\* C6: on a store of n >= 1 entries, what search with top_k >= 1 returns is
\* min(top_k, n) entries, no entry left out scores strictly higher than one
\* returned, and each returned score is >= the next.
C6_TopKDescending ==
    (last.op = "search" /\ last.err = "none" /\ last.k >= 1
        /\ Size(last.s) >= 1)
    => /\ Len(results) = Min(last.k, Size(last.s))
       /\ \A j \in 1 .. Len(results) - 1 :
            FloatGeq(results[j].score, results[j + 1].score)
       /\ \E idx \in Selections(results, last.s, last.v) :
            \A i \in 1 .. Size(last.s) :
                (\A j \in 1 .. Len(results) : idx[j] # i)
                => \A j \in 1 .. Len(results) :
                     ~RealLess(results[j].score,
                               Similarities(embeddings[last.s], last.v)[i])

\* C7: search on a store without entries returns the empty sequence and
\* raises nothing, whatever the query (the zero vector too) and top_k.
C7_EmptyStoreSearch ==
    (last.op = "search" /\ Size(last.s) = 0)
    => results = <<>> /\ last.err = "none"

C7_Witness ==
    /\ last.op = "search" /\ Size(last.s) = 0
    /\ last.v = <<0, 0>>
    /\ last.k = MaxSearched + 1

\* C8: with top_k above the number n >= 1 of entries, search returns n
\* results, one for each entry, and raises nothing.
C8_TopKClamped ==
    (last.op = "search" /\ Size(last.s) >= 1 /\ last.k > Size(last.s))
    => /\ last.err = "none"
       /\ Len(results) = Size(last.s)
       /\ Selections(results, last.s, last.v) # {}

\* C9: after clear, size is 0, both sequences are empty and no file is at
\* the location, so that a store opened there starts empty.
C9_ClearSemantics ==
    last.op = "clear"
    => /\ Size(last.s) = 0
       /\ embeddings[last.s] = <<>>
       /\ metadata[last.s] = <<>>
       /\ ~FileOf(last.s).exists
       /\ ~ReopenRaises(last.s)
       /\ Reopened(last.s).embeddings = <<>>
       /\ Reopened(last.s).metadata = <<>>

\* A store has cleared a location whose snapshot another store had written
\* two entries to.
C9_Witness ==
    /\ last.op = "clear"
    /\ pickle_path[last.s] # None
    /\ \E t \in Stores :
          t # last.s /\ pickle_path[t] = pickle_path[last.s] /\ Size(t) = 2

\* The entries of s added from the vector v.
AddedFrom(s, v) == {i \in 1 .. Size(s) : embeddings[s][i] = Normalize(v)}

WellFormed(file) ==
    /\ ~LoadRaises(file)
    /\ Len(file.obj[1]) = Len(file.obj[2])

\* C11: a store that was opened without an exception on a location whose
\* file exists was opened on a file that deserializes into a pair of two
\* sequences of equal length; on any other file the open raises.
C11_CorruptionRaises ==
    (/\ last.op = "open"
     /\ last.err = "none"
     /\ FileOf(last.s).exists) => WellFormed(FileOf(last.s))

\* The store that open handed back on a pair of unequal lengths.
C11_Mismatched ==
    /\ last.op = "open"
    /\ last.err = "none"
    /\ Len(embeddings[last.s]) # Len(metadata[last.s])

\* What a store newly opened on p holds when the file there is file.
OpenedOn(p, file) == Loaded(<<>>, <<>>, p, file)

\* A step in which the process is killed inside add() on the store s whose
\* file held, until then, exactly the entries of s.
KilledInAdd(s) ==
    /\ last'.op = "add"
    /\ last'.s = s
    /\ last'.err \in KillPoints
    /\ opened[s]
    /\ FileOf(s).exists
    /\ ~ReopenRaises(s)
    /\ Reopened(s) = [embeddings |-> embeddings[s], metadata |-> metadata[s]]

\* The entries of s after the add of the step.
AfterAdd(s) ==
    {[embeddings |-> AddEmbedding(embeddings[s], last'.v),
      metadata |-> AddMetadata(metadata[s], m)] : m \in SavedFiles}

\* C12 as stated: after a kill at any point inside add() on a store with a
\* location, the file is a readable snapshot that holds exactly the entries
\* before the add or exactly the entries after it.
C12_KillLeavesSnapshot ==
    [][\A s \in Stores :
         KilledInAdd(s) =>
           /\ ~LoadRaises(fs'[pickle_path[s]])
           /\ OpenedOn(pickle_path[s], fs'[pickle_path[s]]) \in
                 {Reopened(s)} \cup AfterAdd(s)]_vars

\* C12 as the code has it: a kill before save() opens the file leaves the
\* file as it was, with the entries before the add; a kill after the file
\* is closed leaves the entries after the add; a kill in between, after
\* open(path, "wb") has truncated the file, leaves a file that cannot be
\* read.
C12_KillByPoint ==
    [][\A s \in Stores :
         KilledInAdd(s) =>
           /\ last'.err = "killed_before_open" =>
                 fs'[pickle_path[s]] = fs[pickle_path[s]]
           /\ last'.err = "killed_after_write" =>
                 /\ ~LoadRaises(fs'[pickle_path[s]])
                 /\ OpenedOn(pickle_path[s], fs'[pickle_path[s]]) \in AfterAdd(s)
           /\ last'.err = "killed_in_write" =>
                 Unreadable(fs'[pickle_path[s]])]_vars

\* Killed in the write: no store is left and the file cannot be read.
C12_Witness ==
    /\ last.op = "add"
    /\ last.err = "killed_in_write"
    /\ \A s \in Stores : ~opened[s]
    /\ \E p \in Paths : Unreadable(fs[p])

\* C17: an add that returns leaves the store one entry longer, the new
\* entry last and every earlier entry as it was, whatever file paths the
\* store already holds.
C17_AppendOnly ==
    [][\A s \in Stores :
         (last'.op = "add" /\ last'.s = s /\ last'.err = "none") =>
           /\ Len(embeddings'[s]) = Size(s) + 1
           /\ Len(metadata'[s]) = Len(metadata[s]) + 1
           /\ SubSeq(embeddings'[s], 1, Size(s)) = embeddings[s]
           /\ SubSeq(metadata'[s], 1, Len(metadata[s])) = metadata[s]
           /\ embeddings'[s][Size(s) + 1] = Normalize(last'.v)
           /\ \E m \in SavedFiles :
                 /\ EmbeddingOf(m.code) = last'.v
                 /\ metadata'[s][Len(metadata[s]) + 1] = m]_vars

\* One file was added twice and the store holds it twice.
C17_Witness ==
    /\ last.op = "add"
    /\ last.err = "none"
    /\ Size(last.s) = 2
    /\ metadata[last.s][1] = metadata[last.s][2]
    /\ embeddings[last.s][1] = embeddings[last.s][2]
    /\ UnitNorm(embeddings[last.s][1])

\* C18: a call of add, save, load, clear or search on a store without a
\* location leaves every file as it was, and a save on any store leaves the
\* sequences of every store as they were.
C18_NoLocationNoFile ==
    [][\A s \in Stores :
         (last'.s = s /\ last'.op \in {"add", "save", "load", "clear", "search"})
         => /\ pickle_path[s] = None => fs' = fs
            /\ last'.op = "save" =>
                  embeddings' = embeddings /\ metadata' = metadata]_vars

\* A store without a location that holds an entry has been saved, and there
\* is no file.
C18_Witness ==
    /\ last.op = "save"
    /\ pickle_path[last.s] = None
    /\ Size(last.s) > 0
    /\ \A p \in Paths : ~fs[p].exists

\* C19: a search that returns, on a non-empty store of unit-norm entries
\* with a non-zero query and 0 <= top_k <= size, returns exactly top_k
\* results.
C19_ExactlyTopK ==
    (/\ last.op = "search"
     /\ last.err = "none"
     /\ NormSq(last.v) # 0
     /\ \A i \in 1 .. Size(last.s) : UnitNorm(embeddings[last.s][i])
     /\ Size(last.s) >= 1
     /\ last.k \in 0 .. Size(last.s)) => Len(results) = last.k

\* search(q, top_k = 0) has returned every entry of a non-empty store.
C19_Witness ==
    /\ last.op = "search"
    /\ last.err = "none"
    /\ last.k = 0
    /\ NormSq(last.v) # 0
    /\ Size(last.s) >= 2
    /\ \A i \in 1 .. Size(last.s) : UnitNorm(embeddings[last.s][i])
    /\ Len(results) = Size(last.s)

\* The indices by descending similarity, equal similarities by ascending
\* index: the earlier added entry first.
RECURSIVE StableDescending(_, _)
StableDescending(sims, indices) ==
    IF indices = {} THEN <<>>
    ELSE LET first == CHOOSE i \in indices :
                        \A k \in indices \ {i} :
                            \/ SortsBefore(sims[k], sims[i])
                            \/ ~SortsBefore(sims[i], sims[k]) /\ i < k
         IN  <<first>> \o StableDescending(sims, indices \ {first})

\* What search would return if it broke ties by insertion order.
StableResults(s, q, n) ==
    LET sims == Similarities(embeddings[s], q)
        order == StableDescending(sims, 1 .. Size(s))
    IN  Scored(metadata[s], sims, SubSeq(order, 1, Min(n, Size(s))))

\* C20 as stated: among entries of equal score the earlier added one comes
\* first, and at the top_k cut the earlier added ones are kept.
C20_TiesByInsertion ==
    (/\ last.op = "search"
     /\ last.err = "none"
     /\ last.k >= 1
     /\ NormSq(last.v) # 0
     /\ \A i \in 1 .. Size(last.s) : UnitNorm(embeddings[last.s][i]))
    => results = StableResults(last.s, last.v, last.k)

\* C20 as the code has it: the scores of the results are those of the
\* descending order, position by position; which of several entries of one
\* score stands at a position, or is kept at the cut, is not fixed.
C20_ScoresDetermined ==
    (last.op = "search" /\ last.err = "none")
    => LET stable == StableResults(last.s, last.v, Len(results))
       IN  /\ Len(stable) = Len(results)
           /\ \A j \in 1 .. Len(results) : results[j].score = stable[j].score

\* Two entries of one score, and top_k = 1 has kept the one added later.
C20_Witness ==
    /\ last.op = "search"
    /\ last.err = "none"
    /\ last.k = 1
    /\ NormSq(last.v) # 0
    /\ Size(last.s) = 2
    /\ metadata[last.s][1] # metadata[last.s][2]
    /\ embeddings[last.s][1] = embeddings[last.s][2]
    /\ UnitNorm(embeddings[last.s][1])
    /\ Len(results) = 1
    /\ results[1].meta = metadata[last.s][2]

\* update_index calls that ended before any file was looked for.
EndedBeforeScan(c) ==
    c.outcome \in {"Repository path does not exist", "UnpicklingError",
                   "ValueError"}

\* C13 as stated: an index call with no items ends with the empty-input
\* error, never normally.
C13_EmptyIndexFails ==
    \A s \in Stores :
        (/\ task[s].call \in {"update_index", "get_batch_embeddings"}
         /\ task[s].pc = "done"
         /\ task[s].texts = <<>>
         /\ ~EndedBeforeScan(task[s]))
        => task[s].outcome = "ValueError: Empty input"

\* C13 as the code has it: get_batch_embeddings([]) raises ValueError
\* ("Empty input") before any request; update_index on a repository with
\* no file to index never calls it and returns "No files to index", with no
\* request sent and nothing added to the store it opened.
C13_EmptyIndexByCaller ==
    \A s \in Stores :
        (/\ task[s].pc = "done"
         /\ task[s].texts = <<>>
         /\ ~EndedBeforeScan(task[s]))
        => /\ task[s].requests = <<>>
           /\ task[s].j = 0
           /\ task[s].call \in {"get_embedding", "get_batch_embeddings"} =>
                 task[s].outcome = "ValueError: Empty input"
           /\ task[s].call = "update_index" =>
                 /\ task[s].outcome = "No files to index"
                 /\ ~ReopenRaises(s)
                 /\ Reopened(s) = [embeddings |-> embeddings[s],
                                    metadata |-> metadata[s]]

\* update_index has returned "No files to index" on a repository whose
\* snapshot holds entries.
C13_Witness ==
    /\ task["s1"].call = "update_index"
    /\ task["s1"].pc = "done"
    /\ task["s1"].outcome = "No files to index"
    /\ Size("s1") > 0

\* C14: get_embedding on an empty or whitespace-only string, an empty list
\* or a list with a blank string raises ValueError ("Empty input") and no
\* request has been sent.
C14_BlankRejectedUnsent ==
    \A s \in Stores :
        (/\ task[s].call = "get_embedding"
         /\ \/ task[s].texts = <<>>
            \/ \E k \in 1 .. Len(task[s].texts) : task[s].texts[k] \in {"", " "})
        => /\ task[s].pc = "done"
           /\ task[s].outcome = "ValueError: Empty input"
           /\ task[s].requests = <<>>

\* get_embedding has raised on a list of a text and a blank string.
C14_Witness ==
    /\ task["s1"].call = "get_embedding"
    /\ ~task["s1"].is_str
    /\ Len(task["s1"].texts) >= 2
    /\ \E k \in 1 .. Len(task["s1"].texts) : task["s1"].texts[k] = "x"
    /\ \E k \in 1 .. Len(task["s1"].texts) : task["s1"].texts[k] = " "
    /\ task["s1"].outcome = "ValueError: Empty input"
    /\ task["s1"].requests = <<>>

RECURSIVE Flattened(_)
Flattened(seqs) ==
    IF seqs = <<>> THEN <<>> ELSE Head(seqs) \o Flattened(Tail(seqs))

\* ceil(n / b)
Ceil(n, b) == (n + b - 1) \div b

\* C15: a get_batch_embeddings call that returned has sent exactly
\* ceil(n / b) requests, each of 1 to b texts, which put end to end are the
\* input; and, the API embedding every request in order, it returned n
\* vectors, the i-th the embedding of the i-th text.
C15_BatchesPartitionInput ==
    \A s \in Stores :
        (/\ task[s].call = "get_batch_embeddings"
         /\ task[s].pc = "done"
         /\ task[s].outcome = "returned")
        => /\ Len(task[s].requests) =
                 Ceil(Len(task[s].texts), task[s].batch_size)
           /\ \A r \in 1 .. Len(task[s].requests) :
                 Len(task[s].requests[r]) \in 1 .. task[s].batch_size
           /\ Flattened(task[s].requests) = task[s].texts
           /\ Len(task[s].all_embeddings) = Len(task[s].texts)
           /\ \A k \in 1 .. Len(task[s].texts) :
                 task[s].all_embeddings[k] = EmbeddingOf(task[s].texts[k])

\* Three texts in batches of two: two requests, of two texts and of one.
C15_Witness ==
    /\ task["s1"].call = "get_batch_embeddings"
    /\ task["s1"].pc = "done"
    /\ task["s1"].outcome = "returned"
    /\ Len(task["s1"].texts) = 3
    /\ task["s1"].batch_size = 2
    /\ Len(task["s1"].requests) = 2
    /\ Len(task["s1"].requests[2]) = 1

\* C16: a call whose request for some batch failed has ended with that
\* error; it sent one request for each batch up to the failed one and none
\* after it, and it added nothing to the store.
C16_EmbedderFailurePropagates ==
    \A s \in Stores :
        task[s].answer \in {"HTTPError", "KeyError"}
        => /\ task[s].pc = "done"
           /\ task[s].outcome = task[s].answer
           /\ Len(task[s].requests) = (task[s].i \div task[s].batch_size) + 1
           /\ Flattened(task[s].requests) =
                 SubSeq(task[s].texts, 1, Len(Flattened(task[s].requests)))
           /\ task[s].j = 0
           /\ task[s].call = "update_index" =>
                 /\ ~ReopenRaises(s)
                 /\ Reopened(s) = [embeddings |-> embeddings[s],
                                    metadata |-> metadata[s]]

\* update_index has ended with the HTTP error of its second request, with a
\* third batch never asked for.
C16_Witness ==
    /\ task["s1"].call = "update_index"
    /\ task["s1"].pc = "done"
    /\ task["s1"].answer = "HTTPError"
    /\ task["s1"].outcome = "HTTPError"
    /\ Len(task["s1"].requests) = 2
    /\ Len(task["s1"].texts) > task["s1"].i + task["s1"].batch_size
    /\ \A k \in 1 .. Len(task["s1"].texts) : ~Blank(task["s1"].texts[k])

\* C21: while update_index waits for the embedder's answer to its second or
\* a later batch, or has ended with that request's error, the pairs of
\* every earlier batch have been added to the store.
C21_BatchStoredBeforeNext ==
    \A s \in Stores :
        (/\ task[s].call = "update_index"
         /\ task[s].pc = "awaiting" \/ task[s].answer \in {"HTTPError", "KeyError"}
         /\ Len(task[s].requests) >= 2)
        => task[s].j >= task[s].i

\* The request for the second batch has failed, the first batch was
\* answered, and the store holds what it was opened with.
C21_Witness ==
    /\ task["s1"].call = "update_index"
    /\ task["s1"].pc = "done"
    /\ task["s1"].answer = "HTTPError"
    /\ Len(task["s1"].requests) = 2
    /\ Len(task["s1"].all_embeddings) = task["s1"].i
    /\ task["s1"].i >= 1
    /\ task["s1"].j = 0
    /\ Reopened("s1") = [embeddings |-> embeddings["s1"],
                          metadata |-> metadata["s1"]]

\* C22: an update_index call that returned "Successfully indexed N files"
\* has made N add calls, and the last N entries of its store are, file by
\* file, the file's metadata with the normalized embedding of the file's
\* content.
C22_IndexedCountIsAdded ==
    \A s \in Stores :
        (/\ task[s].call = "update_index"
         /\ task[s].pc = "done"
         /\ task[s].outcome = "Successfully indexed")
        => LET n == Len(task[s].texts)
           IN  /\ task[s].j = n
               /\ Size(s) >= n
               /\ Len(metadata[s]) = Size(s)
               /\ \A k \in 1 .. n :
                     /\ metadata[s][Size(s) - n + k] = task[s].metas[k]
                     /\ embeddings[s][Size(s) - n + k] =
                           Normalize(EmbeddingOf(task[s].texts[k]))

\* "Successfully indexed" for two files or more, with fewer add calls than
\* files.
C22_Witness ==
    /\ task["s1"].call = "update_index"
    /\ task["s1"].pc = "done"
    /\ task["s1"].outcome = "Successfully indexed"
    /\ Len(task["s1"].texts) >= 2
    /\ task["s1"].j < Len(task["s1"].texts)
    /\ task["s1"].answer = "short"

\* update_index on s has returned its success message after adding.
Indexed(s) ==
    /\ task[s].call = "update_index"
    /\ task[s].pc = "done"
    /\ task[s].outcome = "Successfully indexed"
    /\ task[s].j >= 1

\* C23: when two update_index calls on one repository have both returned
\* their success message, the snapshot is the whole sequence of the store
\* of one of them, the one that wrote last: it holds what that store loaded
\* when it was opened and what it added, and nothing the other call added
\* in between.
C23_LastWriterWins ==
    (\A s \in Stores : Indexed(s) /\ pickle_path[s] \in Paths)
    => \E w \in Stores :
          /\ FileOf(w) = Pickled(embeddings[w], metadata[w])
          /\ \A k \in 1 .. task[w].j :
                metadata[w][Size(w) - task[w].j + k] = task[w].metas[k]

\* Both calls found no snapshot, both have returned their success message,
\* and the snapshot holds the entries of the second only: the entries the
\* first one added are lost.
C23_LostUpdate ==
    /\ \A s \in Stores : Indexed(s) /\ Size(s) = task[s].j
    /\ pickle_path["s1"] = pickle_path["s2"]
    /\ FileOf("s2") = Pickled(embeddings["s2"], metadata["s2"])
    /\ Len(FileOf("s2").obj[1]) < task["s1"].j + task["s2"].j
    /\ metadata["s1"] # metadata["s2"]

\* C25: a search or a read of size on any store leaves the embeddings and
\* the metadata of every store and every file as they were; and the
\* sequences of a store change only in a call of add, clear or load on it,
\* or when the store object is made.
C25_SearchAndSizeReadOnly ==
    [][/\ last'.op \in {"search", "size"} =>
            embeddings' = embeddings /\ metadata' = metadata /\ fs' = fs
       /\ \A s \in Stores :
            (embeddings'[s] # embeddings[s] \/ metadata'[s] # metadata[s])
            => last'.s = s /\ last'.op \in {"add", "clear", "load", "open"}]_vars

\* A search has returned a result on a store of two different entries with
\* a snapshot file that holds them.
C25_Witness ==
    /\ last.op = "search"
    /\ last.err = "none"
    /\ Size(last.s) = 2
    /\ embeddings[last.s][1] # embeddings[last.s][2]
    /\ results # <<>>
    /\ FileOf(last.s) = Pickled(embeddings[last.s], metadata[last.s])

\* One store that holds the entries of every index file.
UnionStore ==
    [embeddings |-> Unpickled(fs["repo.pkl"]).embeddings
                    \o Unpickled(fs["other.pkl"]).embeddings,
     metadata |-> Unpickled(fs["repo.pkl"]).metadata
                  \o Unpickled(fs["other.pkl"]).metadata]

\* What one search of that store can return.
UnionSearches(q, top_k) ==
    IF StoreIsEmpty(UnionStore.embeddings) THEN {<<>>}
    ELSE LET sims == Similarities(UnionStore.embeddings, q)
         IN  {Scored(UnionStore.metadata, sims, TopIndices(order, top_k)) :
                order \in ArgSorts(sims)}

MergedSearch ==
    /\ last.op = "search_code"
    /\ last.s = None
    /\ last.err \in {"none", "no matches"}
    /\ last.k >= 1

\* C24: a search_code over every repository with num_results = k >= 1
\* returns what one search with top_k = k of a single store holding the
\* entries of all index files returns: the k highest-scoring entries of the
\* union (all of them when there are fewer), highest score first.
C24_MergeIsUnionSearch ==
    MergedSearch
    => /\ results \in UnionSearches(last.v, last.k)
       /\ Len(results) = Min(last.k, Len(UnionStore.embeddings))

\* The same for index files without an entry whose embedding is all zero.
C24_MergeIsUnionSearchOfNumbers ==
    (MergedSearch /\ \A i \in 1 .. Len(UnionStore.embeddings) :
                        ~IsNaNVector(UnionStore.embeddings[i]))
    => /\ results \in UnionSearches(last.v, last.k)
       /\ Len(results) = Min(last.k, Len(UnionStore.embeddings))
       /\ \A j \in 1 .. (Len(results) - 1) :
             FloatGeq(results[j].score, results[j + 1].score)

\* search_code has merged the results of two stores and cut them to
\* num_results, of which one store alone has fewer.
C24_Witness ==
    /\ MergedSearch
    /\ last.err = "none"
    /\ Len(Unpickled(fs["repo.pkl"]).embeddings) > 0
    /\ Len(Unpickled(fs["other.pkl"]).embeddings) > 0
    /\ Len(results) = last.k
    /\ Len(Unpickled(fs["other.pkl"]).embeddings) < last.k
    /\ Len(UnionStore.embeddings) > last.k
    /\ \A i \in 1 .. Len(UnionStore.embeddings) :
          ~IsNaNVector(UnionStore.embeddings[i])
    /\ \E j \in 1 .. Len(results) : results[j].meta.code = "x"
    /\ \E j \in 1 .. Len(results) : results[j].meta.code = "xy"

\* The positions of the metadata of a path in the index file of a
\* repository.
EntriesOf(repository, file_path) ==
    {i \in 1 .. Len(Unpickled(fs[repository]).metadata) :
        Unpickled(fs[repository]).metadata[i].file = file_path}

\* C26: get_file on an index file that can be read returns one record, the
\* entry of the requested path that was inserted first, and 'not found'
\* exactly when the index file holds no entry of that path.
C26_FirstInserted ==
    (last.op = "get_file" /\ fs[last.s].exists /\ ~LoadRaises(fs[last.s]))
    => /\ last.err \in {"none", "not found"}
       /\ last.err = "not found" <=> EntriesOf(last.s, last.v) = {}
       /\ last.err = "not found" => results = <<>>
       /\ last.err = "none"
          => /\ last.k \in EntriesOf(last.s, last.v)
             /\ \A i \in EntriesOf(last.s, last.v) : last.k <= i
             /\ results = <<Unpickled(fs[last.s]).metadata[last.k]>>

\* get_file has returned the first of two entries of one path that differ
\* in their code.
C26_Witness ==
    /\ last.op = "get_file"
    /\ last.err = "none"
    /\ EntriesOf(last.s, last.v) = {1, 2}
    /\ Unpickled(fs[last.s]).metadata[1] # Unpickled(fs[last.s]).metadata[2]
    /\ results = <<Unpickled(fs[last.s]).metadata[1]>>

====
